---------------------------- MODULE Spec2Model ----------------------------
(***************************************************************************)
(* hubeau.py: incremental synchronisation of river-gauge measurements.     *)
(*                                                                         *)
(* Units.  Timestamps are whole hours (naive datetimes, as the code holds  *)
(* them).  A raw remote value (resultat_obs, millimetres) is counted in    *)
(* half-millimetres; a stored value (metres) is counted in 1e-4 m, so the  *)
(* code's float(valueStr)/1000.0 is Metres(r) == r * 5 and the tolerance   *)
(* 0.001 m is EPS == 10.                                                   *)
(***************************************************************************)
EXTENDS Integers, Sequences, FiniteSets, TLC

VARIABLES
    now,            \* datetime.datetime.utcnow(), in hours
    config,         \* Config: [download, plotdays, datasize, idList]
    dbStation,      \* table "station": the set of persisted station ids
    dbData,         \* table "data": persisted rows [station, t, v], in rowid order
    remote,         \* the observation service: station id -> the points it serves, in serving order
    heap,           \* the Station objects of the process: sequence of records, indexed by object id
    dbStationlist,  \* main: the StationList returned by DataBase.load (object ids)
    stationList,    \* main: the StationList being built (object ids)
    pc,             \* position of main / of the operation under study
    idx,            \* main: index of the current item of idList
    dl,             \* Station.downloadData's frame: [obj, url, page, next]
    log,            \* history: the requests issued by the current downloadData, with their outcome
    hist,           \* history: what the claims need to remember of earlier steps
                    \* (in Spec: the run number n, and db0, table "data" as the run found it)
    cand,           \* input of the operation under study (a candidate StationData)
    ret             \* result of the operation under study, <<>> while there is none

vars == <<now, config, dbStation, dbData, remote, heap, dbStationlist, stationList,
          pc, idx, dl, log, hist, cand, ret>>

-----------------------------------------------------------------------------
(* Bounds of the model and constants of the program *)

MaxLen == 3                 \* longest series drawn as an input of checkData
MaxRemote == 3              \* most points the remote holds for one station
MaxSyncs == 2               \* most sync passes on one station in one behaviour

EPS == 10                   \* 0.001 m, hubeau.py:480
RetentionDays == 28         \* hubeau.py:803
HoursPerDay == 24           \* timedelta.days, hubeau.py:803
T1900 == -1                 \* datetime(1900,1,1), older than every timestamp, hubeau.py:427
VMinInit == 99999000        \* 9999.9 m, hubeau.py:428
VMaxInit == 0               \* 0.0 m, hubeau.py:428

Ids == {"A", "B"}
None == <<>>                \* Python's None, for optional values held as <<>> or <<x>>

Abs(x) == IF x < 0 THEN -x ELSE x

\* float(valueStr)/1000.0, hubeau.py:606
Metres(r) == r * 5

-----------------------------------------------------------------------------
(* StationData and Station *)

\* StationData.__init__ : a new measurement has state 0
StationData(station, t, v) == [station |-> station, t |-> t, v |-> v, state |-> 0]

\* Station.dbInit
dbInit(self, state, utcnow) ==
    [self EXCEPT !.data = <<>>,
                 !.x_lim = <<utcnow, T1900>>,
                 !.y_lim = <<VMinInit, VMaxInit>>,
                 !.state = state]

\* Station.__init__
Station(id, utcnow) ==
    dbInit([id |-> id, data |-> <<>>, x_lim |-> <<0, 0>>, y_lim |-> <<0, 0>>, state |-> 0],
           0, utcnow)

\* Station.addData
addData(self, data) ==
    LET x0 == IF data.t < self.x_lim[1] THEN data.t ELSE self.x_lim[1]
        x1 == IF data.t > self.x_lim[2] THEN data.t ELSE self.x_lim[2]
        y0 == IF data.v < self.y_lim[1] THEN data.v ELSE self.y_lim[1]
        y1 == IF data.v > self.y_lim[2] THEN data.v ELSE self.y_lim[2]
    IN  [self EXCEPT !.x_lim = <<x0, x1>>,
                     !.y_lim = <<y0, y1>>,
                     !.data = Append(self.data, data)]

\* the loop of Station.checkData over self.data[::-1], from index i down to 1
RECURSIVE scanBack(_, _, _)
scanBack(data, d, i) ==
    IF i = 0 THEN 0
    ELSE IF data[i].t < d.t THEN 0
    ELSE IF data[i].t = d.t
         THEN (IF Abs(data[i].v - d.v) < EPS THEN 2 ELSE 1)
         ELSE scanBack(data, d, i - 1)

\* a checkData whose early exit also fires on an equal timestamp
RECURSIVE scanBackLe(_, _, _)
scanBackLe(data, d, i) ==
    IF i = 0 THEN 0
    ELSE IF data[i].t <= d.t THEN 0
    ELSE scanBackLe(data, d, i - 1)

checkData_exitOnEqual(self, data) ==
    IF data.station = self.id THEN scanBackLe(self.data, data, Len(self.data)) ELSE 0

\* a checkData whose tolerance includes a difference of exactly 0.001
RECURSIVE scanBackTol(_, _, _)
scanBackTol(data, d, i) ==
    IF i = 0 THEN 0
    ELSE IF data[i].t < d.t THEN 0
    ELSE IF data[i].t = d.t
         THEN (IF Abs(data[i].v - d.v) <= EPS THEN 2 ELSE 1)
         ELSE scanBackTol(data, d, i - 1)

checkData_inclusiveTol(self, data) ==
    IF data.station = self.id THEN scanBackTol(self.data, data, Len(self.data)) ELSE 0

\* Station.checkData
checkData(self, data) ==
    IF data.station = self.id
    THEN scanBack(self.data, data, Len(self.data))
    ELSE 0

\* list.sort(key=lambda item: item.t): a stable sort by timestamp
RECURSIVE insertByT(_, _)
insertByT(s, d) ==
    IF s = <<>> THEN <<d>>
    ELSE IF s[Len(s)].t <= d.t THEN Append(s, d)
    ELSE Append(insertByT(SubSeq(s, 1, Len(s) - 1), d), s[Len(s)])

RECURSIVE sortByT(_)
sortByT(s) ==
    IF s = <<>> THEN <<>>
    ELSE insertByT(sortByT(SubSeq(s, 1, Len(s) - 1)), s[Len(s)])

-----------------------------------------------------------------------------
(* Predicates on series *)

Sorted(s) == \A i \in 1..(Len(s) - 1) : s[i].t <= s[i + 1].t
UniqueT(s) == \A i, j \in 1..Len(s) : i # j => s[i].t # s[j].t

SetMin(S) == CHOOSE x \in S : \A y \in S : x <= y
SetMax(S) == CHOOSE x \in S : \A y \in S : x >= y

\* all sequences over S of length at most n
SeqsUpTo(S, n) == UNION {[1..k -> S] : k \in 0..n}

-----------------------------------------------------------------------------
(* Values every specification gives to the variables it does not use *)

NoFrame == [obj |-> 0, url |-> None, page |-> 0, next |-> None]
NoConfig == [download |-> TRUE, plotdays |-> 0, datasize |-> 0, idList |-> <<>>]
NoHist == [n |-> 0]

-----------------------------------------------------------------------------
(* Specification SpecClassify: Station.checkData on drawn series *)

ClassifyTimes == {0, 1, 2}
ClassifyVals == {0, 5, 10}
ClassifyPoints == {[station |-> "A", t |-> t, v |-> v, state |-> 2] :
                      t \in ClassifyTimes, v \in ClassifyVals}
ClassifyCands == {StationData(s, t, v) : s \in Ids, t \in ClassifyTimes, v \in ClassifyVals}

InitClassify ==
    /\ now = 3
    /\ config = NoConfig
    /\ dbStation = {} /\ dbData = <<>>
    /\ remote = [s \in Ids |-> <<>>]
    /\ \E s \in SeqsUpTo(ClassifyPoints, MaxLen) :
          heap = <<[Station("A", now) EXCEPT !.data = s]>>
    /\ dbStationlist = <<>> /\ stationList = <<>>
    /\ pc = "classify" /\ idx = 0 /\ dl = NoFrame /\ log = <<>> /\ hist = NoHist
    /\ cand \in ClassifyCands
    /\ ret = None

\* d.state=self.checkData(d), hubeau.py:608
Classify ==
    /\ pc = "classify"
    /\ ret' = <<checkData(heap[1], cand)>>
    /\ pc' = "classified"
    /\ UNCHANGED <<now, config, dbStation, dbData, remote, heap, dbStationlist,
                   stationList, idx, dl, log, hist, cand>>

NextClassify == Classify

SpecClassify == InitClassify /\ [][NextClassify]_vars


\* a scan of the whole series, newest first, without the early exit
RECURSIVE fullScanBack(_, _, _)
fullScanBack(data, d, i) ==
    IF i = 0 THEN 0
    ELSE IF data[i].t = d.t
         THEN (IF Abs(data[i].v - d.v) < EPS THEN 2 ELSE 1)
         ELSE fullScanBack(data, d, i - 1)

\* a scan of the whole series, oldest first
RECURSIVE fullScanForward(_, _, _)
fullScanForward(data, d, i) ==
    IF i > Len(data) THEN 0
    ELSE IF data[i].t = d.t
         THEN (IF Abs(data[i].v - d.v) < EPS THEN 2 ELSE 1)
         ELSE fullScanForward(data, d, i + 1)

\* C3: for every series sorted ascending by timestamp and every candidate of the
\* same station, checkData (backward scan with early exit) returns what a scan
\* of the whole series returns: the whole backward scan, and, when the
\* timestamps of the series are unique, the whole forward scan as well.
C3_BackwardScanEquivalence ==
    (pc = "classified" /\ cand.station = heap[1].id /\ Sorted(heap[1].data))
        => /\ ret[1] = fullScanBack(heap[1].data, cand, Len(heap[1].data))
           /\ UniqueT(heap[1].data)
                 => ret[1] = fullScanForward(heap[1].data, cand, 1)

\* C3 witness: a sorted series whose scan leaves by the early exit before it
\* has seen the oldest element, and one where the match lies behind newer ones
C3_Witness ==
    /\ pc = "classified" /\ cand.station = heap[1].id /\ Sorted(heap[1].data)
    /\ Len(heap[1].data) = 3
    /\ heap[1].data[1].t < heap[1].data[2].t
    /\ heap[1].data[2].t = cand.t
    /\ cand.t < heap[1].data[3].t
    /\ ret = <<1>>

\* C12: for a series sorted ascending with unique timestamps and a candidate of
\* the same station, checkData returns 2 (Unchanged) when a point has the
\* candidate's timestamp and the values differ by less than 0.001, 1 (Conflicting)
\* when a point has the candidate's timestamp and the values differ by 0.001 or
\* more, and 0 (New) when no point has the candidate's timestamp.
C12_Classification ==
    (pc = "classified" /\ cand.station = heap[1].id
        /\ Sorted(heap[1].data) /\ UniqueT(heap[1].data))
    => LET data == heap[1].data
           M == {i \in 1..Len(data) : data[i].t = cand.t}
       IN  /\ M = {} => ret[1] = 0
           /\ \A i \in M : Abs(data[i].v - cand.v) < EPS => ret[1] = 2
           /\ \A i \in M : Abs(data[i].v - cand.v) >= EPS => ret[1] = 1

\* C12 witness: a sorted series of unique timestamps whose middle point has the
\* candidate's timestamp and a value exactly 0.001 away: Conflicting
C12_Witness ==
    /\ pc = "classified" /\ cand.station = heap[1].id
    /\ Sorted(heap[1].data) /\ UniqueT(heap[1].data)
    /\ Len(heap[1].data) = 3
    /\ heap[1].data[2].t = cand.t
    /\ Abs(heap[1].data[2].v - cand.v) = EPS
    /\ ret = <<1>>

\* C15: a candidate of another station than the series' is not given a merge
\* state that lets the caller take it for New and append it: checkData does not
\* return 0 for it.
C15_CrossStationNotNew ==
    (pc = "classified" /\ cand.station # heap[1].id) => ret[1] # 0

-----------------------------------------------------------------------------
(* Specification SpecAddData: sequences of Station.addData on a new station *)

MaxAdds == 3                \* most calls of addData in one behaviour

AddTimes == {0, 1, 2}
AddVals == {-10, -5, 5}
AddPoints == {StationData("A", t, v) : t \in AddTimes, v \in AddVals}

InitAddData ==
    /\ now = 3
    /\ config = NoConfig
    /\ dbStation = {} /\ dbData = <<>>
    /\ remote = [s \in Ids |-> <<>>]
    /\ heap = <<Station("A", now)>>
    /\ dbStationlist = <<>> /\ stationList = <<>>
    /\ pc = "adddata" /\ idx = 0 /\ dl = NoFrame /\ log = <<>> /\ hist = NoHist
    /\ cand = None
    /\ ret = None

\* self.addData(d), hubeau.py:612 (and station.addData(r), hubeau.py:329)
AddData ==
    /\ pc = "adddata"
    /\ Len(heap[1].data) < MaxAdds
    /\ \E d \in AddPoints :
          /\ heap' = [heap EXCEPT ![1] = addData(heap[1], d)]
          /\ cand' = <<d>>
    /\ UNCHANGED <<now, config, dbStation, dbData, remote, dbStationlist, stationList,
                   pc, idx, dl, log, hist, ret>>

NextAddData == AddData

SpecAddData == InitAddData /\ [][NextAddData]_vars

\* C26: after any sequence of addData on a freshly initialised station, the
\* running bounds of a non-empty series are the exact bounds of its points:
\* x_lim = [earliest, latest timestamp] and y_lim = [minimum, maximum value],
\* for any values, all-negative ones included.
C26_ExactBounds ==
    heap[1].data # <<>> =>
        LET T == {heap[1].data[i].t : i \in 1..Len(heap[1].data)}
            V == {heap[1].data[i].v : i \in 1..Len(heap[1].data)}
        IN  /\ heap[1].x_lim = <<SetMin(T), SetMax(T)>>
            /\ heap[1].y_lim = <<SetMin(V), SetMax(V)>>

-----------------------------------------------------------------------------
(* Specification SpecMinMax: StationList.computeMinMax on drawn station lists *)

MaxPts == 2                 \* longest series drawn as an input of computeMinMax

\* the scan of one station's data, hubeau.py:903-907 and 913-918;
\* acc is <<tmin, tmax, vmin, vmax>>
RECURSIVE scanMinMax(_, _, _, _, _, _)
scanMinMax(data, i, all, dmin, dmax, acc) ==
    IF i > Len(data) THEN acc
    ELSE LET d == data[i]
             inw == all \/ (d.t >= dmin /\ d.t <= dmax)
             tmax == IF inw /\ d.t > acc[2] THEN d.t ELSE acc[2]
             tmin == IF inw /\ d.t < acc[1] THEN d.t ELSE acc[1]
             vmax == IF inw /\ d.v > acc[4] THEN d.v ELSE acc[4]
             vmin == IF inw /\ d.v < acc[3] THEN d.v ELSE acc[3]
         IN  scanMinMax(data, i + 1, all, dmin, dmax, <<tmin, tmax, vmin, vmax>>)

\* one turn of the loop over the stations, hubeau.py:896-937; lim is <<x_lim, y_lim>>
mergeMinMax(lim, m) ==
    LET x_lim == lim[1]
        y_lim == lim[2]
        x == IF x_lim = None THEN <<m[1], m[2]>>
             ELSE <<IF m[1] < x_lim[1] THEN m[1] ELSE x_lim[1],
                    IF m[2] > x_lim[2] THEN m[2] ELSE x_lim[2]>>
        y == IF y_lim = None THEN <<m[3], m[4]>>
             ELSE <<IF m[3] < y_lim[1] THEN m[3] ELSE y_lim[1],
                    IF m[3] > y_lim[2] THEN m[4] ELSE y_lim[2]>>
    IN  <<x, y>>

RECURSIVE foldMinMax(_, _, _, _, _, _, _, _)
foldMinMax(objs, list, k, all, dmin, dmax, utcnow, lim) ==
    IF k > Len(list) THEN lim
    ELSE foldMinMax(objs, list, k + 1, all, dmin, dmax, utcnow,
            mergeMinMax(lim, scanMinMax(objs[list[k]].data, 1, all, dmin, dmax,
                                        <<utcnow, T1900, VMinInit, VMaxInit>>)))

\* StationList.computeMinMax; date_min and date_max are None or <<t>>
computeMinMax(objs, list, date_min, date_max, utcnow) ==
    LET all == date_min = None /\ date_max = None
        dmin == IF date_min = None THEN T1900 ELSE date_min[1]
        dmax == IF date_max = None THEN utcnow ELSE date_max[1]
    IN  foldMinMax(objs, list, 1, all, dmin, dmax, utcnow, <<None, None>>)

MinMaxTimes == {0, 1}
MinMaxVals == {-5, 5, 10, 20}
MinMaxPoints(id) == {[station |-> id, t |-> t, v |-> v, state |-> 0] :
                        t \in MinMaxTimes, v \in MinMaxVals}
\* the windows asked for: none, generateHTML's [date_deb, date_fin], one bound only
MinMaxWindows == {<<None, None>>, <<<<1>>, <<2>>>>, <<None, <<0>>>>}

InitMinMax ==
    /\ now = 2
    /\ config = NoConfig
    /\ dbStation = {} /\ dbData = <<>>
    /\ remote = [s \in Ids |-> <<>>]
    /\ \E a \in SeqsUpTo(MinMaxPoints("A"), MaxPts), b \in SeqsUpTo(MinMaxPoints("B"), MaxPts) :
          heap = <<[Station("A", now) EXCEPT !.data = a], [Station("B", now) EXCEPT !.data = b]>>
    /\ dbStationlist = <<>>
    /\ stationList \in {<<>>, <<1>>, <<1, 2>>}
    /\ pc = "minmax" /\ idx = 0 /\ dl = NoFrame /\ log = <<>> /\ hist = NoHist
    /\ cand \in MinMaxWindows
    /\ ret = None

\* (x_lim,y_lim)=self.computeMinMax(date_deb,date_fin), hubeau.py:959
ComputeMinMax ==
    /\ pc = "minmax"
    /\ ret' = <<computeMinMax(heap, stationList, cand[1], cand[2], now)>>
    /\ pc' = "minmaxed"
    /\ UNCHANGED <<now, config, dbStation, dbData, remote, heap, dbStationlist,
                   stationList, idx, dl, log, hist, cand>>

NextMinMax == ComputeMinMax

SpecMinMax == InitMinMax /\ [][NextMinMax]_vars

\* the points of the stations of the list that lie in the window asked for
InWindow(objs, list, w, utcnow) ==
    LET lo == IF w[1] = None THEN T1900 ELSE w[1][1]
        hi == IF w[2] = None THEN utcnow ELSE w[2][1]
    IN  {p \in UNION {{objs[list[k]].data[i] : i \in 1..Len(objs[list[k]].data)} :
                         k \in 1..Len(list)} :
            (w[1] = None /\ w[2] = None) \/ (p.t >= lo /\ p.t <= hi)}

\* C8: when the window holds at least one point, computeMinMax returns the union
\* bounds: [earliest, latest] timestamp and [minimum, maximum] value over all the
\* in-window points of all the stations, whatever the order of the stations.
\* Stated, as in the claim's example, for stations that each have a point in the
\* window and whose values are all positive.
C8_UnionBounds ==
    LET P == InWindow(heap, stationList, cand, now)
    IN  (pc = "minmaxed" /\ P # {}
            /\ \A k \in 1..Len(stationList) :
                  /\ InWindow(heap, <<stationList[k]>>, cand, now) # {}
                  /\ \A i \in 1..Len(heap[stationList[k]].data) :
                        heap[stationList[k]].data[i].v > 0)
            => ret[1] = << <<SetMin({p.t : p \in P}), SetMax({p.t : p \in P})>>,
                           <<SetMin({p.v : p \in P}), SetMax({p.v : p \in P})>> >>

\* C27: when no station of the list has a point in the window asked for, the
\* empty list included, computeMinMax returns a time range and a value range
\* that are both defined: neither is None.
C27_DegenerateWellDefined ==
    (pc = "minmaxed" /\ InWindow(heap, stationList, cand, now) = {})
        => ret[1][1] # None /\ ret[1][2] # None

-----------------------------------------------------------------------------
(* The remote observation service and Station.downloadData *)

PageSize == 1               \* config.datasize: points per page
MaxReq == 4                 \* most requests one downloadData issues in the model
TzOffset == 2               \* offset of the process's local time to UTC, in hours

\* datetime.datetime.now(): the local wall clock
LocalNow(utcnow) == utcnow + TzOffset

\* time.mktime(time.strptime(s, time_format)): the numerals read as local time
mktime(s) == s - TzOffset
\* datetime.datetime.fromtimestamp(e)
fromtimestamp(e) == e + TzOffset
\* hubeau.py:604 (a zone of constant offset: no skipped or repeated local hour)
ParseTime(s) == fromtimestamp(mktime(s))

\* the URL of the first page, hubeau.py:574-580; date is None or <<t>>
firstUrl(id, date, pagesize) == <<[id |-> id, date |-> date, size |-> pagesize, page |-> 1]>>

\* what the service holds for the station of u from u.date on, in serving order
Served(rem, u) ==
    SelectSeq(rem[u.id], LAMBDA p : u.date = None \/ p.t >= u.date[1])

\* the "data" array of the page u asks for
PageData(rem, u) ==
    LET all == Served(rem, u)
        last == IF u.page * u.size < Len(all) THEN u.page * u.size ELSE Len(all)
    IN  SubSeq(all, (u.page - 1) * u.size + 1, last)

\* the "next" link of the page u asks for: None on the last page
PageNext(rem, u) ==
    IF u.page * u.size < Len(Served(rem, u)) THEN <<[u EXCEPT !.page = @ + 1]>> ELSE None

\* the ways a request can end: a good page, requests.get raising, an HTTP status
\* above 206, a content type without "json", an api_version whose major is not 1
Outcomes == {"ok", "transport", "http", "notjson", "version"}
Failures == Outcomes \ {"ok"}

\* a response that arrives carries the page in its body whatever its status,
\* content type and version say; data and next are what json["data"] and
\* json["next"] would give
Responses(rem, u) ==
    {[outcome |-> k,
      data |-> IF k = "transport" THEN <<>> ELSE PageData(rem, u),
      next |-> IF k = "ok" THEN PageNext(rem, u) ELSE None] : k \in Outcomes}

\* a merge loop that appends the candidates of state 1 as well
RECURSIVE mergePage_appendConflicts(_, _, _)
mergePage_appendConflicts(self, datas, i) ==
    IF i > Len(datas) THEN self
    ELSE LET d0 == StationData(self.id, ParseTime(datas[i].t), Metres(datas[i].r))
             d == [d0 EXCEPT !.state = checkData(self, d0)]
         IN  mergePage_appendConflicts(IF d.state \in {0, 1} THEN addData(self, d) ELSE self,
                                       datas, i + 1)

\* a merge loop that moves the running bounds for every candidate, appended or not
RECURSIVE mergePage_touchBounds(_, _, _)
mergePage_touchBounds(self, datas, i) ==
    IF i > Len(datas) THEN self
    ELSE LET d0 == StationData(self.id, ParseTime(datas[i].t), Metres(datas[i].r))
             d == [d0 EXCEPT !.state = checkData(self, d0)]
         IN  mergePage_touchBounds(IF d.state = 0 THEN addData(self, d)
                                   ELSE [addData(self, d) EXCEPT !.data = self.data],
                                   datas, i + 1)

\* the loop over datas, hubeau.py:601-614
RECURSIVE mergePage(_, _, _)
mergePage(self, datas, i) ==
    IF i > Len(datas) THEN self
    ELSE LET d0 == StationData(self.id, ParseTime(datas[i].t), Metres(datas[i].r))
             d == [d0 EXCEPT !.state = checkData(self, d0)]
         IN  mergePage(IF d.state = 0 THEN addData(self, d) ELSE self, datas, i + 1)

\* the same loop, seen from its candidates: each d with the state checkData gave
\* it, and whether the series checkData scanned for it was sorted at that moment
RECURSIVE classifyPage(_, _, _)
classifyPage(self, datas, i) ==
    IF i > Len(datas) THEN <<>>
    ELSE LET d0 == StationData(self.id, ParseTime(datas[i].t), Metres(datas[i].r))
             d == [d0 EXCEPT !.state = checkData(self, d0)]
         IN  <<[d |-> d, sorted |-> Sorted(self.data)]>>
                \o classifyPage(IF d.state = 0 THEN addData(self, d) ELSE self, datas, i + 1)

\* the frame of downloadData before its loop, hubeau.py:572-582.
\* next is <<>> while the local variable is unbound, <<value>> once assigned
downloadFrame(obj, id, date, pagesize) ==
    [obj |-> obj, url |-> firstUrl(id, date, pagesize), page |-> 1, next |-> <<>>]

\* a loop that ends after the first page, whatever its next link
downloadStep_ignoreNext(self, f, resp) ==
    IF resp.outcome = "ok"
    THEN [self |-> mergePage(self, resp.data, 1),
          dl |-> [f EXCEPT !.next = <<resp.next>>, !.page = @ + 1, !.url = None],
          raised |-> FALSE]
    ELSE [self |-> self, dl |-> [f EXCEPT !.url = None], raised |-> FALSE]

\* a loop that empties the series when a request fails
downloadStep_dropOnFailure(self, f, resp) ==
    IF resp.outcome = "ok"
    THEN [self |-> mergePage(self, resp.data, 1),
          dl |-> [f EXCEPT !.next = <<resp.next>>, !.page = @ + 1, !.url = resp.next],
          raised |-> FALSE]
    ELSE [self |-> [self EXCEPT !.data = <<>>], dl |-> [f EXCEPT !.url = None],
          raised |-> FALSE]

\* a loop that merges the data of a JSON response without looking at its version
downloadStep_mergeAnyJson(self, f, resp) ==
    IF resp.outcome \in {"ok", "version"}
    THEN [self |-> mergePage(self, resp.data, 1),
          dl |-> [f EXCEPT !.next = <<resp.next>>, !.page = @ + 1, !.url = resp.next],
          raised |-> FALSE]
    ELSE [self |-> self, dl |-> [f EXCEPT !.url = None], raised |-> FALSE]

\* one turn of "while url", hubeau.py:583-624, on the response resp.
\* raised: an exception leaves downloadData (requests.get raising, or
\* UnboundLocalError on "url=next" when no page has assigned next yet)
downloadStep(self, f, resp) ==
    CASE resp.outcome = "transport" ->
            [self |-> self, dl |-> f, raised |-> TRUE]
      [] resp.outcome = "http" ->
            [self |-> self, dl |-> [f EXCEPT !.url = None], raised |-> FALSE]
      [] resp.outcome \in {"notjson", "version"} ->
            IF f.next = <<>>
            THEN [self |-> self, dl |-> f, raised |-> TRUE]
            ELSE [self |-> self,
                  dl |-> [f EXCEPT !.page = @ + 1, !.url = f.next[1]],
                  raised |-> FALSE]
      [] resp.outcome = "ok" ->
            [self |-> mergePage(self, resp.data, 1),
             dl |-> [f EXCEPT !.next = <<resp.next>>, !.page = @ + 1, !.url = resp.next],
             raised |-> FALSE]

\* a cursor test on the exact age instead of its whole days
cursorOf_exactAge(self, localnow) ==
    IF Len(self.data) > 0
    THEN LET date == sortByT(self.data)[Len(self.data)].t
         IN  IF localnow - date > RetentionDays * HoursPerDay THEN None ELSE <<date>>
    ELSE None

\* a cursor replaced by the start of the retention window when it is too old
cursorOf_windowStart(self, localnow) ==
    IF Len(self.data) > 0
    THEN LET date == sortByT(self.data)[Len(self.data)].t
             dt_days == (localnow - date) \div HoursPerDay
         IN  IF dt_days > RetentionDays
             THEN <<localnow - RetentionDays * HoursPerDay>>
             ELSE <<date>>
    ELSE None

\* a cursor read from the last element of the series as it is held, unsorted
cursorOf_unsorted(self, localnow) ==
    IF Len(self.data) > 0
    THEN LET date == self.data[Len(self.data)].t
             dt_days == (localnow - date) \div HoursPerDay
         IN  IF dt_days > RetentionDays THEN None ELSE <<date>>
    ELSE None

\* the cursor of Station.getStation, hubeau.py:798-806: None or <<date>>
cursorOf(self, localnow) ==
    IF Len(self.data) > 0
    THEN LET date == sortByT(self.data)[Len(self.data)].t
             dt_days == (localnow - date) \div HoursPerDay
         IN  IF dt_days > RetentionDays THEN None ELSE <<date>>
    ELSE None

\* a getStation that keeps of the series only the point of the cursor
getStationBegin_truncate(obj, self, cfg, localnow) ==
    LET sorted == sortByT(self.data)
    IN  [self |-> [self EXCEPT !.data = IF sorted = <<>> THEN <<>>
                                        ELSE <<sorted[Len(sorted)]>>],
         dl |-> downloadFrame(obj, self.id, cursorOf(self, localnow), cfg.datasize)]

\* Station.getStation up to the loop of downloadData, hubeau.py:792-808 and 572-582:
\* the station with its series sorted, and the frame of downloadData
getStationBegin(obj, self, cfg, localnow) ==
    [self |-> [self EXCEPT !.data = sortByT(self.data)],
     dl |-> downloadFrame(obj, self.id, cursorOf(self, localnow), cfg.datasize)]

\* a getStation that returns True whatever the series holds
getStationResult_always(self) == TRUE

\* the value Station.getStation returns, hubeau.py:810-816
getStationResult(self) == Len(self.data) > 0

-----------------------------------------------------------------------------
(* Specification SpecSync: repeated sync passes (Station.getStation) on one station *)

SyncTimes == {0, 1}
SyncRaws == {0, 2}
SyncPoints == {[t |-> t, r |-> r] : t \in SyncTimes, r \in SyncRaws}
\* the clock: shortly after the points, and 28 days 1 hour and 29 days after hour 0
SyncNows == {3 - TzOffset,
             RetentionDays * HoursPerDay + 1 - TzOffset,
             (RetentionDays + 1) * HoursPerDay - TzOffset}

\* what the claims remember of a finished sync pass
Snapshot(self, rem, lg, cfg) ==
    [data |-> self.data, x_lim |-> self.x_lim, y_lim |-> self.y_lim, remote |-> rem,
     clean |-> cfg.download /\ \A i \in 1..Len(lg) : lg[i].outcome = "ok"]
NoSnapshot == [data |-> <<>>, x_lim |-> <<>>, y_lim |-> <<>>, remote |-> <<>>, clean |-> FALSE]

InitSync ==
    /\ now \in SyncNows
    /\ \E dn \in BOOLEAN :
          config = [download |-> dn, plotdays |-> 0, datasize |-> PageSize, idList |-> <<"A">>]
    /\ dbStation = {} /\ dbData = <<>>
    /\ \E r \in SeqsUpTo(SyncPoints, MaxRemote) : remote = [s \in Ids |-> IF s = "A" THEN r ELSE <<>>]
    /\ heap = <<Station("A", now)>>
    /\ dbStationlist = <<>> /\ stationList = <<>>
    /\ pc = "idle" /\ idx = 0 /\ dl = NoFrame /\ log = <<>>
    /\ hist = [n |-> 0, prev |-> NoSnapshot, last |-> NoSnapshot]
    /\ cand = None
    /\ ret = None

\* station.getStation(config): downloadInfo, then the cursor and the first URL
SyncBegin ==
    /\ pc = "idle"
    /\ hist.n < MaxSyncs
    /\ \E info \in {"ok", "transport"} :
          IF config.download /\ info = "transport"
          THEN \* requests.get raises in downloadInfo, hubeau.py:535
               /\ pc' = "crashed"
               /\ UNCHANGED <<heap, dl>>
          ELSE IF config.download
          THEN LET b == getStationBegin(1, heap[1], config, LocalNow(now))
               IN  /\ heap' = [heap EXCEPT ![1] = b.self]
                   /\ dl' = b.dl
                   /\ pc' = "download"
          ELSE /\ dl' = [NoFrame EXCEPT !.obj = 1]
               /\ pc' = "download"
               /\ UNCHANGED heap
    /\ log' = <<>>
    /\ ret' = None
    /\ UNCHANGED <<now, config, dbStation, dbData, remote, dbStationlist, stationList,
                   idx, hist, cand>>

\* one turn of the loop of downloadData: a request and the handling of its response
SyncPage ==
    /\ pc = "download"
    /\ dl.url # None
    /\ Len(log) < MaxReq
    /\ \E resp \in Responses(remote, dl.url[1]) :
          LET step == downloadStep(heap[dl.obj], dl, resp)
          IN  /\ heap' = [heap EXCEPT ![dl.obj] = step.self]
              /\ dl' = step.dl
              /\ pc' = IF step.raised THEN "crashed" ELSE "download"
              /\ log' = Append(log, [url |-> dl.url[1], outcome |-> resp.outcome,
                                     next |-> resp.next,
                                     body |-> resp.data,
                                     cands |-> IF resp.outcome = "ok"
                                               THEN classifyPage(heap[dl.obj], resp.data, 1)
                                               ELSE <<>>])
    /\ UNCHANGED <<now, config, dbStation, dbData, remote, dbStationlist, stationList,
                   idx, hist, cand, ret>>

\* downloadData has returned: getStation returns whether the series holds data
SyncEnd ==
    /\ pc = "download"
    /\ dl.url = None
    /\ ret' = <<getStationResult(heap[dl.obj])>>
    /\ hist' = [n |-> hist.n + 1, prev |-> hist.last,
                last |-> Snapshot(heap[dl.obj], remote["A"], log, config)]
    /\ pc' = "idle"
    /\ UNCHANGED <<now, config, dbStation, dbData, remote, heap, dbStationlist,
                   stationList, idx, dl, log, cand>>

\* between two passes the service publishes a new point, newest first
RemoteNew ==
    /\ pc = "idle"
    /\ hist.n > 0 /\ hist.n < MaxSyncs
    /\ remote["A"] = hist.last.remote
    /\ Len(remote["A"]) < MaxRemote
    /\ \E p \in SyncPoints : remote' = [remote EXCEPT !["A"] = <<p>> \o @]
    /\ UNCHANGED <<now, config, dbStation, dbData, heap, dbStationlist, stationList,
                   pc, idx, dl, log, hist, cand, ret>>

NextSync == SyncBegin \/ SyncPage \/ SyncEnd \/ RemoteNew

SpecSync == InitSync /\ [][NextSync]_vars

-----------------------------------------------------------------------------
(* Claims on the sync pass *)

\* C1: after any sequence of sync passes on a station, whatever the order in
\* which the remote serves its points within and across pages, the series never
\* holds two points with the same timestamp.
C1_UniqueTimestamps ==
    \A o \in 1..Len(heap) : UniqueT(heap[o].data)

\* C2: two sync passes in a row with download enabled, both without a failure,
\* on unchanged remote data: the series after the second has the length and the
\* running bounds it had after the first, and no duplicate timestamp.
C2_Idempotent ==
    (pc = "idle" /\ hist.n >= 2 /\ hist.prev.clean /\ hist.last.clean
        /\ hist.prev.remote = hist.last.remote)
    => /\ Len(hist.last.data) = Len(hist.prev.data)
       /\ hist.last.x_lim = hist.prev.x_lim
       /\ hist.last.y_lim = hist.prev.y_lim
       /\ UniqueT(hist.last.data)

\* C4: after a failed page request of any kind, on any page, downloadData issues
\* no further request: the failed request is the last one of the log.
C4_NoRequestAfterFailure ==
    \A i \in 1..Len(log) : log[i].outcome \in Failures => i = Len(log)

\* the number of pages the remote cuts its answer to the first URL into
PagesOf(rem, u) ==
    LET n == Len(Served(rem, u))
    IN  IF n = 0 THEN 1 ELSE (n + u.size - 1) \div u.size

\* C5: on a chain of N good pages, the first N-1 with a next link and the last
\* with next = null, downloadData issues exactly N requests, each after the
\* first to the next link of the page before, and then stops.
C5_PaginationExhaustion ==
    (pc = "download" /\ Len(log) > 0
        /\ \A i \in 1..Len(log) : log[i].outcome = "ok")
    => /\ \A i \in 1..(Len(log) - 1) :
             log[i].next # None /\ log[i + 1].url = log[i].next[1]
       /\ Len(log) <= PagesOf(remote, log[1].url)
       /\ (log[Len(log)].next = None) <=> (dl.url = None)
       /\ (dl.url = None) => Len(log) = PagesOf(remote, log[1].url)

\* C5 witness: a chain of three good pages has been read and the loop has ended
C5_Witness ==
    /\ pc = "download" /\ dl.url = None /\ Len(log) = 3
    /\ \A i \in 1..3 : log[i].outcome = "ok"
    /\ log[1].next # None /\ log[2].next # None /\ log[3].next = None

\* the state in which getStation has just chosen its cursor for a non-empty series
CursorChosen ==
    pc = "download" /\ config.download /\ log = <<>> /\ dl.url # None
        /\ Len(heap[dl.obj].data) > 0

\* the latest local timestamp: the series is sorted when the cursor is chosen
Latest(self) == SetMax({self.data[i].t : i \in 1..Len(self.data)})
CursorAge == LocalNow(now) - Latest(heap[dl.obj])

\* C6 as claimed: the latest local timestamp is the cursor exactly when
\* now - cursor is at most 28 days, and is discarded when it exceeds 28 days
\* by any amount.
C6_DiscardBeyond28Days ==
    CursorChosen =>
        /\ CursorAge <= RetentionDays * HoursPerDay
              => dl.url[1].date = <<Latest(heap[dl.obj])>>
        /\ CursorAge > RetentionDays * HoursPerDay => dl.url[1].date = None

\* C6 amended: the latest local timestamp is the cursor, unmodified, exactly when
\* now - cursor is less than 29 days (its whole days are at most 28), and is
\* discarded from 29 days on.
C6_DiscardFrom29Days ==
    CursorChosen =>
        /\ CursorAge < (RetentionDays + 1) * HoursPerDay
              => dl.url[1].date = <<Latest(heap[dl.obj])>>
        /\ CursorAge >= (RetentionDays + 1) * HoursPerDay => dl.url[1].date = None

\* C6 witness: a cursor 28 days and 1 hour old is used as it is
C6_Witness ==
    /\ CursorChosen
    /\ CursorAge = RetentionDays * HoursPerDay + 1
    /\ dl.url[1].date = <<Latest(heap[dl.obj])>>

\* C7 as claimed: a cursor older than the retention window is replaced by the
\* start of the window: the fetch starts at now minus the retention limit.
C7_FetchFromWindowStart ==
    (CursorChosen /\ CursorAge > RetentionDays * HoursPerDay)
        => dl.url[1].date = <<LocalNow(now) - RetentionDays * HoursPerDay>>

\* C7 amended: a cursor of 29 days or more is discarded and the fetch is issued
\* without any start timestamp, so that the remote serves all it holds for the
\* station; neither the stale cursor nor the start of the window is sent.
C7_FetchWithoutStart ==
    (CursorChosen /\ CursorAge >= (RetentionDays + 1) * HoursPerDay)
        => /\ dl.url[1].date = None
           /\ Served(remote, dl.url[1]) = remote[heap[dl.obj].id]

\* C7 witness: a cursor 29 days old, and a first URL without a date
C7_Witness ==
    /\ CursorChosen
    /\ CursorAge = (RetentionDays + 1) * HoursPerDay
    /\ dl.url[1].date = None
    /\ Len(remote[heap[dl.obj].id]) > 0

\* the candidates of the pages read so far that checkData classified as k
LogCands(k) ==
    {d \in UNION {{log[i].cands[c].d : c \in 1..Len(log[i].cands)} : i \in 1..Len(log)} :
        d.state = k}

SeriesSet(self) == {self.data[k] : k \in 1..Len(self.data)}

\* C14: when a page request fails after pages of the same station were read,
\* every point those pages classified New and appended is in the series from
\* then on, and so when the sync ends.
C14_PartialPagesRetained ==
    \A i \in 1..Len(log) :
        (\E j \in (i + 1)..Len(log) : log[j].outcome \in Failures)
            => \A c \in 1..Len(log[i].cands) :
                  log[i].cands[c].d.state = 0
                      => log[i].cands[c].d \in SeriesSet(heap[dl.obj])

\* C14 witness: a sync that has ended after a good page that appended a point
\* and a second request that failed
C14_Witness ==
    /\ pc = "idle" /\ ret = <<TRUE>> /\ Len(log) = 2
    /\ log[1].outcome = "ok" /\ log[2].outcome = "http"
    /\ \E c \in 1..Len(log[1].cands) :
          /\ log[1].cands[c].d.state = 0
          /\ log[1].cands[c].d \in SeriesSet(heap[dl.obj])

\* the candidates of a page that were classified New, in the order of the page
RECURSIVE NewOf(_)
NewOf(cands) ==
    IF cands = <<>> THEN <<>>
    ELSE (IF Head(cands).d.state = 0 THEN <<Head(cands).d>> ELSE <<>>) \o NewOf(Tail(cands))

\* C22: the handling of a page appends to the series exactly the candidates of
\* the page classified New, in their order; when every candidate of the page is
\* Unchanged or Conflicting the series and its running bounds stay as they were.
C22_OnlyNewAppended ==
    [][(pc = "download" /\ Len(log') = Len(log) + 1) =>
          LET news == NewOf(log'[Len(log')].cands)
          IN  /\ heap'[dl.obj].data = heap[dl.obj].data \o news
              /\ news = <<>> => heap'[dl.obj] = heap[dl.obj]]_vars

\* C22 witness: three pages of one point each, the first classified New, the
\* second Conflicting, the third Unchanged, and a series of one point
C22_Witness ==
    /\ pc = "download" /\ Len(log) = 3
    /\ \A i \in 1..3 : Len(log[i].cands) = 1
    /\ log[1].cands[1].d.state = 0
    /\ log[2].cands[1].d.state = 1
    /\ log[3].cands[1].d.state = 2
    /\ heap[dl.obj].data = <<log[1].cands[1].d>>
    /\ heap[dl.obj].y_lim = <<log[1].cands[1].d.v, log[1].cands[1].d.v>>

\* C24: points come into the series only from responses with a status of at most
\* 206, a JSON content type and major version 1: the handling of a response that
\* fails in any of these, whatever data its body carries, leaves the Station as
\* it was, and a series changes only on a successful response.
C24_OnlyFromSuccessfulResponses ==
    [][(pc = "download" /\ Len(log') = Len(log) + 1) =>
          /\ log'[Len(log')].outcome \in Failures => heap'[dl.obj] = heap[dl.obj]
          /\ heap'[dl.obj].data # heap[dl.obj].data => log'[Len(log')].outcome = "ok"]_vars

\* C24 witness: after a good page, a response of another API version whose body
\* carries a point the series does not hold; the series holds the first page only
C24_Witness ==
    /\ Len(log) = 2 /\ log[1].outcome = "ok" /\ log[2].outcome = "version"
    /\ Len(log[2].body) = 1
    /\ Len(heap[dl.obj].data) = 1
    /\ heap[dl.obj].data[1].t # ParseTime(log[2].body[1].t)

\* the state in which getStation has just chosen its cursor, empty series included
CursorDecided == pc = "download" /\ config.download /\ log = <<>> /\ dl.url # None

\* C25 as claimed: the cursor is the maximum timestamp of the series whenever
\* the series is not empty, and absent when it is empty.
C25_CursorIsLatest ==
    CursorDecided =>
        IF heap[dl.obj].data = <<>>
        THEN dl.url[1].date = None
        ELSE dl.url[1].date = <<Latest(heap[dl.obj])>>

\* C25 amended: the cursor is the maximum timestamp of the series, whatever the
\* order the series was in, when the series is not empty and that maximum is
\* less than 29 days before the local clock; it is absent when the series is
\* empty, and when the maximum is 29 days old or more.
C25_CursorIsLatestIfRecent ==
    CursorDecided =>
        IF heap[dl.obj].data = <<>>
        THEN dl.url[1].date = None
        ELSE IF CursorAge < (RetentionDays + 1) * HoursPerDay
        THEN dl.url[1].date = <<Latest(heap[dl.obj])>>
        ELSE dl.url[1].date = None

\* C25 witness: the pass before left the series out of order, its last element
\* not the latest, and the cursor of this pass is the maximum timestamp
C25_Witness ==
    /\ CursorDecided /\ hist.n = 1
    /\ Len(hist.last.data) >= 2 /\ ~Sorted(hist.last.data)
    /\ dl.url[1].date = <<Latest(heap[dl.obj])>>
    /\ dl.url[1].date # <<hist.last.data[Len(hist.last.data)].t>>

\* C20: every time checkData scans the series during a sync, for every point of
\* every page, the series is sorted ascending by timestamp at that moment.
C20_SortedWhenScanned ==
    \A i \in 1..Len(log) : \A c \in 1..Len(log[i].cands) : log[i].cands[c].sorted

-----------------------------------------------------------------------------
(* DataBase and StationList *)

\* the first index k of list with objs[list[k]].id = id, 0 when there is none
RECURSIVE indexOfId(_, _, _, _)
indexOfId(objs, list, id, k) ==
    IF k > Len(list) THEN 0
    ELSE IF objs[list[k]].id = id THEN k
    ELSE indexOfId(objs, list, id, k + 1)

\* an append that adds the station whether its identifier is in the list or not
append_always(objs, list, o) == [heap |-> objs, list |-> Append(list, o)]

\* StationList.checkStation and StationList.append, hubeau.py:875-889:
\* the objects and the list after list.append(o)
append(objs, list, o) ==
    LET k == indexOfId(objs, list, objs[o].id, 1)
    IN  IF k = 0
        THEN [heap |-> objs, list |-> Append(list, o)]
        ELSE [heap |-> [objs EXCEPT ![list[k]].data = objs[o].data], list |-> list]

-----------------------------------------------------------------------------
(* Specification SpecAppend: sequences of StationList.append on drawn stations *)

MaxObjs == 3                \* Station objects the appended stations are drawn from
MaxAppends == 3             \* most calls of append in one behaviour

\* the series an object may hold: its values tell the objects apart
AppendSeries(o, id) ==
    {<<>>,
     <<[station |-> id, t |-> 0, v |-> o, state |-> 0]>>,
     <<[station |-> id, t |-> 0, v |-> o, state |-> 0],
       [station |-> id, t |-> 1, v |-> o, state |-> 0]>>}

InitAppend ==
    /\ now = 2
    /\ config = NoConfig
    /\ dbStation = {} /\ dbData = <<>>
    /\ remote = [s \in Ids |-> <<>>]
    /\ \E ids \in [1..MaxObjs -> Ids] :
          \E ser \in [1..MaxObjs -> UNION {AppendSeries(o, i) : o \in 1..MaxObjs, i \in Ids}] :
             /\ \A o \in 1..MaxObjs : ser[o] \in AppendSeries(o, ids[o])
             /\ heap = [o \in 1..MaxObjs |-> [Station(ids[o], now) EXCEPT !.data = ser[o]]]
    /\ dbStationlist = <<>> /\ stationList = <<>>
    /\ pc = "append" /\ idx = 0 /\ dl = NoFrame /\ log = <<>>
    /\ hist = [n |-> 0, o |-> 0, heap0 |-> <<>>, list0 |-> <<>>]
    /\ cand = None
    /\ ret = None

\* stationList.append(station), hubeau.py:1446, on any of the objects
AppendStation ==
    /\ pc = "append"
    /\ hist.n < MaxAppends
    /\ \E o \in 1..Len(heap) :
          LET a == append(heap, stationList, o)
          IN  /\ heap' = a.heap
              /\ stationList' = a.list
              /\ hist' = [n |-> hist.n + 1, o |-> o, heap0 |-> heap, list0 |-> stationList]
    /\ UNCHANGED <<now, config, dbStation, dbData, remote, dbStationlist, pc, idx, dl,
                   log, cand, ret>>

NextAppend == AppendStation

SpecAppend == InitAppend /\ [][NextAppend]_vars

\* C16: after any sequence of appends no two stations of the list have the same
\* identifier; an append of a station whose identifier is in the list leaves the
\* list as it was and gives the entry of that identifier the series of the
\* incoming station, none of its former points kept; any other append adds the
\* station at the end.
C16_AppendDeduplicates ==
    /\ \A i, j \in 1..Len(stationList) :
          i # j => heap[stationList[i]].id # heap[stationList[j]].id
    /\ hist.n > 0 =>
          LET id == hist.heap0[hist.o].id
              there == {k \in 1..Len(hist.list0) : hist.heap0[hist.list0[k]].id = id}
          IN  IF there = {}
              THEN stationList = Append(hist.list0, hist.o) /\ heap = hist.heap0
              ELSE /\ stationList = hist.list0
                   /\ \A k \in there : heap[stationList[k]].data = hist.heap0[hist.o].data
                   /\ \A o \in 1..Len(heap) :
                         (\A k \in there : stationList[k] # o) => heap[o] = hist.heap0[o]

\* C16 witness: the last append brought a second object with the identifier of
\* an entry and another series, and the entry now holds that series
C16_Witness ==
    /\ hist.n >= 2
    /\ \E k \in 1..Len(hist.list0) :
          /\ hist.list0[k] # hist.o
          /\ hist.heap0[hist.list0[k]].id = hist.heap0[hist.o].id
          /\ hist.heap0[hist.list0[k]].data # <<>>
          /\ hist.heap0[hist.o].data # <<>>
          /\ hist.heap0[hist.list0[k]].data # hist.heap0[hist.o].data
          /\ heap[stationList[k]].data = hist.heap0[hist.o].data
    /\ Len(stationList) = Len(hist.list0)

-----------------------------------------------------------------------------
(* DataBase.load and DataBase.store *)

\* the loop "for r in results", hubeau.py:327-329
RECURSIVE loadRows(_, _, _)
loadRows(self, results, i) ==
    IF i > Len(results) THEN self
    ELSE loadRows(addData(self, [station |-> results[i].station, t |-> results[i].t,
                                 v |-> results[i].v, state |-> 2]),
                  results, i + 1)

\* a load window of plotdays days
loadFrom_plotdays(plotdays, utcnow) == utcnow - plotdays * HoursPerDay

\* tm of DataBase.load, hubeau.py:313-315: the oldest timestamp loaded
loadFrom(plotdays, utcnow) == utcnow - (plotdays + 1) * HoursPerDay

\* DataBase.load, hubeau.py:308-330, from item k of idList on.
\* The session hands out one object per persisted station: a station asked for
\* twice is the same object, initialised and filled again
RECURSIVE load(_, _, _, _, _, _, _, _)
load(dbS, dbD, idList, k, plotdays, utcnow, objs, stations) ==
    IF k > Len(idList) THEN [heap |-> objs, list |-> stations]
    ELSE IF idList[k] \notin dbS
    THEN load(dbS, dbD, idList, k + 1, plotdays, utcnow, objs, stations)
    ELSE LET s == idList[k]
             j == indexOfId(objs, stations, s, 1)
             o == IF j = 0 THEN Len(objs) + 1 ELSE stations[j]
             station == dbInit(Station(s, utcnow), 2, utcnow)
             objs1 == IF j = 0 THEN Append(objs, station) ELSE [objs EXCEPT ![o] = station]
             a == append(objs1, stations, o)
             results == SelectSeq(dbD, LAMBDA r : r.station = s
                                                   /\ r.t >= loadFrom(plotdays, utcnow))
         IN  load(dbS, dbD, idList, k + 1, plotdays, utcnow,
                  [a.heap EXCEPT ![o] = loadRows(a.heap[o], results, 1)], a.list)

\* a store that adds every measurement of the series, whatever its state
newRows_all(self) == self.data

\* the rows DataBase.store adds for one station, hubeau.py:342-344
newRows(self) == SelectSeq(self.data, LAMBDA d : d.state = 0)

\* a persisted row of table "data"
Row(d) == [station |-> d.station, t |-> d.t, v |-> d.v]
RECURSIVE Rows(_)
Rows(ds) == IF ds = <<>> THEN <<>> ELSE <<Row(Head(ds))>> \o Rows(Tail(ds))

-----------------------------------------------------------------------------
(* Specification Spec: runs of main on the stations of idList *)

PlotDays == 1               \* config.plotdays: days shown on the graph
MaxRunRemote == 2           \* most points the remote holds for station A in a run
MaxRuns == 2                \* most runs of main in one behaviour

RunTimes == {0, 1, 30}
RunPoints == {[t |-> t, r |-> r] : t \in RunTimes, r \in SyncRaws}
RunPointsB == {[t |-> 30, r |-> 0]}
RunIdLists == {<<"A">>, <<"A", "B">>, <<"A", "A">>}
\* the clock: hour 1 is the oldest hour DataBase.load still loads
RunNow == (PlotDays + 1) * HoursPerDay + 1

Init ==
    /\ now = RunNow
    /\ \E dn \in BOOLEAN, ids \in RunIdLists :
          config = [download |-> dn, plotdays |-> PlotDays, datasize |-> PageSize,
                    idList |-> ids]
    /\ dbStation = {} /\ dbData = <<>>
    /\ \E a \in SeqsUpTo(RunPoints, MaxRunRemote), b \in SeqsUpTo(RunPointsB, 1) :
          remote = [s \in Ids |-> IF s = "A" THEN a ELSE b]
    /\ heap = <<>>
    /\ dbStationlist = <<>> /\ stationList = <<>>
    /\ pc = "load" /\ idx = 0 /\ dl = NoFrame /\ log = <<>>
    /\ hist = [n |-> 1, db0 |-> <<>>]
    /\ cand = None
    /\ ret = None

\* dbStationlist=db.load(idList), hubeau.py:1416
Load ==
    /\ pc = "load"
    /\ LET l == load(dbStation, dbData, config.idList, 1, config.plotdays, now, <<>>, <<>>)
       IN  /\ heap' = l.heap
           /\ dbStationlist' = l.list
    /\ stationList' = <<>>
    /\ idx' = 1
    /\ pc' = "sync"
    /\ UNCHANGED <<now, config, dbStation, dbData, remote, dl, log, hist, cand, ret>>

\* one turn of "for item in idList" up to the loop of downloadData,
\* hubeau.py:1439-1445: the station of the list loaded, or a new one,
\* then getStation: downloadInfo, the cursor and the first URL
MainBegin ==
    /\ pc = "sync"
    /\ idx <= Len(config.idList)
    /\ LET item == config.idList[idx]
           j == indexOfId(heap, dbStationlist, item, 1)
           o == IF j = 0 THEN Len(heap) + 1 ELSE dbStationlist[j]
           objs == IF j = 0 THEN Append(heap, Station(item, now)) ELSE heap
       IN  \E info \in {"ok", "transport"} :
              IF config.download /\ info = "transport"
              THEN /\ pc' = "crashed"
                   /\ heap' = objs
                   /\ dl' = [NoFrame EXCEPT !.obj = o]
              ELSE IF config.download
              THEN LET b == getStationBegin(o, objs[o], config, LocalNow(now))
                   IN  /\ heap' = [objs EXCEPT ![o] = b.self]
                       /\ dl' = b.dl
                       /\ pc' = "download"
              ELSE /\ heap' = objs
                   /\ dl' = [NoFrame EXCEPT !.obj = o]
                   /\ pc' = "download"
    /\ log' = <<>>
    /\ UNCHANGED <<now, config, dbStation, dbData, remote, dbStationlist, stationList,
                   idx, hist, cand, ret>>

\* getStation returns, hubeau.py:1445-1446: a station with data joins stationList
MainEnd ==
    /\ pc = "download"
    /\ dl.url = None
    /\ LET a == IF getStationResult(heap[dl.obj])
                THEN append(heap, stationList, dl.obj)
                ELSE [heap |-> heap, list |-> stationList]
       IN  /\ heap' = a.heap
           /\ stationList' = a.list
    /\ idx' = idx + 1
    /\ pc' = "sync"
    /\ UNCHANGED <<now, config, dbStation, dbData, remote, dbStationlist, dl, log,
                   hist, cand, ret>>

\* a main that generates the page after the sync of its first station and goes
\* on to store
GenerateHTML_early ==
    /\ pc = "sync"
    /\ idx > 1
    /\ ret' = <<computeMinMax(heap, stationList,
                              <<now - config.plotdays * HoursPerDay>>, <<now>>, now)>>
    /\ idx' = 1
    /\ pc' = "store"
    /\ UNCHANGED <<now, config, dbStation, dbData, remote, heap, dbStationlist,
                   stationList, dl, log, hist, cand>>

\* stationList.generateHTML(config), hubeau.py:1448: the common bounds of the
\* window shown, then createGraph sorts the series of every station (hubeau.py:647)
GenerateHTML ==
    /\ pc = "sync"
    /\ idx > Len(config.idList)
    /\ ret' = <<computeMinMax(heap, stationList,
                              <<now - config.plotdays * HoursPerDay>>, <<now>>, now)>>
    /\ heap' = [o \in 1..Len(heap) |->
                  IF \E k \in 1..Len(stationList) : stationList[k] = o
                  THEN [heap[o] EXCEPT !.data = sortByT(@)]
                  ELSE heap[o]]
    /\ idx' = 1
    /\ pc' = "store"
    /\ UNCHANGED <<now, config, dbStation, dbData, remote, dbStationlist, stationList,
                   dl, log, hist, cand>>

\* a store that goes on to the measurements without adding the station's record
StoreStation_skipRecord ==
    /\ pc = "store"
    /\ idx <= Len(stationList)
    /\ pc' = "store_data"
    /\ UNCHANGED <<now, config, dbStation, dbData, remote, heap, dbStationlist,
                   stationList, idx, dl, log, hist, cand, ret>>

\* DataBase.store, hubeau.py:339-341: the record of a new station is added and
\* committed; the commit may raise
StoreStation ==
    /\ pc = "store"
    /\ idx <= Len(stationList)
    /\ IF heap[stationList[idx]].state = 0
       THEN \E commit \in {"ok", "raise"} :
               IF commit = "ok"
               THEN /\ dbStation' = dbStation \cup {heap[stationList[idx]].id}
                    /\ pc' = "store_data"
               ELSE /\ pc' = "crashed"
                    /\ UNCHANGED dbStation
       ELSE /\ pc' = "store_data"
            /\ UNCHANGED dbStation
    /\ UNCHANGED <<now, config, dbData, remote, heap, dbStationlist, stationList,
                   idx, dl, log, hist, cand, ret>>

\* hubeau.py:345-346: a measurement of state 1 makes store call session.update,
\* which the Session does not have: AttributeError
needsUpdate(self) == \E i \in 1..Len(self.data) : self.data[i].state = 1

\* DataBase.store, hubeau.py:342-347: the new measurements of the station are
\* added and committed together; the commit may raise, and nothing of it stays
StoreMeasurements ==
    /\ pc = "store_data"
    /\ \E commit \in {"ok", "raise"} :
          IF commit = "ok" /\ ~needsUpdate(heap[stationList[idx]])
          THEN /\ dbData' = dbData \o Rows(newRows(heap[stationList[idx]]))
               /\ idx' = idx + 1
               /\ pc' = "store"
          ELSE /\ pc' = "crashed"
               /\ UNCHANGED <<dbData, idx>>
    /\ UNCHANGED <<now, config, dbStation, remote, heap, dbStationlist, stationList,
                   dl, log, hist, cand, ret>>

\* DataBase.store returns and main ends
StoreDone ==
    /\ pc = "store"
    /\ idx > Len(stationList)
    /\ pc' = "done"
    /\ UNCHANGED <<now, config, dbStation, dbData, remote, heap, dbStationlist,
                   stationList, idx, dl, log, hist, cand, ret>>

\* the program is started again on the database the run before has left
RunAgain ==
    /\ pc \in {"done", "crashed"}
    /\ hist.n < MaxRuns
    /\ hist' = [n |-> hist.n + 1, db0 |-> dbData]
    /\ heap' = <<>>
    /\ dbStationlist' = <<>> /\ stationList' = <<>>
    /\ pc' = "load" /\ idx' = 0 /\ dl' = NoFrame /\ log' = <<>>
    /\ ret' = None
    /\ UNCHANGED <<now, config, dbStation, dbData, remote, cand>>

Next ==
    \/ Load \/ MainBegin \/ SyncPage \/ MainEnd \/ GenerateHTML
    \/ StoreStation \/ StoreMeasurements \/ StoreDone \/ RunAgain

Spec == Init /\ [][Next]_vars

-----------------------------------------------------------------------------
(* Claims on the database *)

RowSet == {dbData[i] : i \in 1..Len(dbData)}

\* C9: once store has ended, by returning or by a commit that raised, a station
\* with a new record has its record and all its new measurements persisted, or
\* neither the record nor any of them.
C9_AtomicPerStation ==
    pc \in {"done", "crashed"} =>
        \A k \in 1..Len(stationList) :
            LET st == heap[stationList[k]]
                news == Rows(newRows(st))
            IN  st.state = 0 =>
                   \/ st.id \in dbStation /\ \A i \in 1..Len(news) : news[i] \in RowSet
                   \/ st.id \notin dbStation /\ \A i \in 1..Len(news) : news[i] \notin RowSet

\* the measurements of state 0 of the stations of a list, in the order of the list
RECURSIVE StateNewRows(_, _, _)
StateNewRows(objs, list, k) ==
    IF k > Len(list) THEN <<>>
    ELSE Rows(SelectSeq(objs[list[k]].data, LAMBDA d : d.state = 0))
            \o StateNewRows(objs, list, k + 1)

\* the rows the run found in table "data" are still its first rows, unchanged
Db0Kept ==
    /\ Len(dbData) >= Len(hist.db0)
    /\ SubSeq(dbData, 1, Len(hist.db0)) = hist.db0

\* C11: store never modifies nor deletes a row that was persisted before it, and
\* when it returns it has added a row for every measurement of state New (0) of
\* every station of the list it was given, and for no other measurement: none
\* for a measurement of state Unchanged (2).
C11_StoreFrame ==
    /\ Db0Kept
    /\ pc = "done" => dbData = hist.db0 \o StateNewRows(heap, stationList, 1)

\* C11 witness: store has returned on a station that holds loaded measurements
\* (state 2) and new ones (state 0), in a run that found rows in the table
C11_Witness ==
    /\ pc = "done" /\ hist.db0 # <<>> /\ Len(dbData) > Len(hist.db0)
    /\ \E k \in 1..Len(stationList) :
          LET data == heap[stationList[k]].data
          IN  /\ \E i \in 1..Len(data) : data[i].state = 2
              /\ \E i \in 1..Len(data) : data[i].state = 0

\* C13: a failed request of any kind during the sync of a station does not
\* abort the run: the step that handles the failure does not end main.
C13_RunNotAborted ==
    [][(pc = "download" /\ Len(log') = Len(log) + 1
           /\ log'[Len(log')].outcome \in Failures) => pc' # "crashed"]_vars

\* C17: every station of the list main passes to generateHTML and to store has
\* at least one measurement: a station whose sync left it none is not in it.
C17_NoEmptyStationInOutput ==
    \A k \in 1..Len(stationList) : Len(heap[stationList[k]].data) > 0

\* C17 witness: store has returned on a list that holds one station of idList
\* and not the other, whose sync left it without a measurement
C17_Witness ==
    /\ pc = "done" /\ Len(config.idList) = 2 /\ Len(stationList) = 1
    /\ \E o \in 1..Len(heap) :
          /\ heap[o].data = <<>>
          /\ \A k \in 1..Len(stationList) : stationList[k] # o

IsPrefix(a, b) == Len(a) <= Len(b) /\ a = SubSeq(b, 1, Len(a))

C19_UniquePersistedKeys ==
    \A i, j \in 1..Len(dbData) :
        i # j => ~(dbData[i].station = dbData[j].station /\ dbData[i].t = dbData[j].t)

\* C21: in every state of the store each persisted measurement is of a station
\* whose record is persisted: store commits the record of a new station before
\* it adds any of the station's measurements.
C21_RecordBeforeMeasurements ==
    \A i \in 1..Len(dbData) : dbData[i].station \in dbStation

\* C21 witness: store has committed the record of a new station and none of its
\* new measurements yet
C21_Witness ==
    /\ pc = "store_data"
    /\ heap[stationList[idx]].state = 0
    /\ heap[stationList[idx]].id \in dbStation
    /\ newRows(heap[stationList[idx]]) # <<>>
    /\ \A i \in 1..Len(dbData) : dbData[i].station # heap[stationList[idx]].id

\* C23: the steps of getStation (the sort and the cursor, then each page of
\* downloadData) keep every point of every series, with its timestamp and its
\* value, and write nothing to the tables.
C23_SyncAdditive ==
    [][(pc \in {"sync", "download"} /\ pc' \in {"download", "crashed"}) =>
          /\ dbData' = dbData /\ dbStation' = dbStation
          /\ \A o \in 1..Len(heap) :
                /\ Len(heap'[o].data) >= Len(heap[o].data)
                /\ \A i \in 1..Len(heap[o].data) :
                      \E j \in 1..Len(heap'[o].data) :
                          /\ heap'[o].data[j].t = heap[o].data[i].t
                          /\ heap'[o].data[j].v = heap[o].data[i].v]_vars

\* C23 witness: the sync of a station loaded with a point has ended with a new
\* point appended after it, and the table is as the run found it
C23_Witness ==
    /\ pc = "download" /\ dl.url = None /\ log # <<>>
    /\ dbData = hist.db0 /\ dbData # <<>>
    /\ LET data == heap[dl.obj].data
       IN  /\ Len(data) = 2
           /\ data[1].state = 2 /\ Row(data[1]) \in RowSet
           /\ data[2].state = 0 /\ data[2].t > data[1].t

\* the step in which generateHTML computes the common bounds and draws the series
HtmlStep == ret = None /\ ret' # None

\* C28 as claimed: load comes before the sync of any station, the sync of every
\* station before the aggregation of the bounds, and store has returned before
\* the page and the charts are generated from the series and the bounds.
C28_StoreBeforeCollaborator ==
    [][/\ pc = "load" => (pc' = "sync" /\ log' = log)
       /\ HtmlStep => (pc = "sync" /\ idx > Len(config.idList))
       /\ HtmlStep => pc = "done"]_vars

\* C28 amended: load comes before the sync of any station, the sync of every
\* station before generateHTML (which aggregates the bounds and draws the
\* charts), and generateHTML before store: store starts and writes only once
\* the page has been generated.
C28_CollaboratorBeforeStore ==
    [][/\ pc = "load" => (pc' = "sync" /\ log' = log)
       /\ HtmlStep => (pc = "sync" /\ idx > Len(config.idList))
       /\ pc' \in {"store", "store_data", "done"} => ret' # None
       /\ (dbData' # dbData \/ dbStation' # dbStation) => ret # None]_vars

\* C28 witness: both stations of idList are synced and in the list, the page has
\* been generated, and store is about to write its first measurements
C28_Witness ==
    /\ pc = "store_data" /\ idx = 1 /\ ret # None
    /\ Len(config.idList) = 2 /\ Len(stationList) = 2
    /\ dbData = hist.db0
    /\ newRows(heap[stationList[1]]) # <<>>

\* the state in which DataBase.load has just returned
Loaded == pc = "sync" /\ idx = 1

\* the stations load returns are the stations asked for that are persisted, and
\* the series of each is its persisted rows from hour `from` on, and no other
LoadedFrom(from) ==
    /\ {heap[dbStationlist[k]].id : k \in 1..Len(dbStationlist)}
          = {config.idList[k] : k \in 1..Len(config.idList)} \cap dbStation
    /\ \A k \in 1..Len(dbStationlist) :
          LET st == heap[dbStationlist[k]]
          IN  Rows(st.data) = SelectSeq(dbData, LAMBDA r : r.station = st.id /\ r.t >= from)

\* C10 as claimed: load returns, for each station asked for that is persisted,
\* exactly its persisted measurements with timestamp >= now - plotdays days.
C10_WindowOfPlotdays ==
    Loaded => LoadedFrom(now - config.plotdays * HoursPerDay)

\* C10 amended: load returns, for each station asked for that is persisted,
\* exactly its persisted measurements with timestamp >= now - (plotdays + 1)
\* days and none older; no other station is returned.
C10_WindowOfPlotdaysPlusOne ==
    Loaded => LoadedFrom(now - (config.plotdays + 1) * HoursPerDay)

\* C10 witness: a persisted station with a row too old to be loaded, a row
\* loaded though it is older than plotdays days, and a row of the last plotdays days
C10_Witness ==
    /\ Loaded
    /\ \E k \in 1..Len(dbStationlist) :
          LET st == heap[dbStationlist[k]]
              mine == {r \in RowSet : r.station = st.id}
              held == {st.data[i].t : i \in 1..Len(st.data)}
          IN  /\ \E r \in mine : r.t < now - (config.plotdays + 1) * HoursPerDay
                                 /\ r.t \notin held
              /\ \E r \in mine : r.t < now - config.plotdays * HoursPerDay /\ r.t \in held

-----------------------------------------------------------------------------
(* Specification SpecSearch: the station search, StationRequest.do *)

MaxCatalog == 2             \* most stations the remote returns for a search
MaxSearchReq == 4           \* most requests one search issues in the model

\* the station records the service may return: code_station and en_service
CatalogEntries == {[code |-> c, en_service |-> a] : c \in Ids, a \in BOOLEAN}

\* the URL of the first page, hubeau.py:1253-1256: None when no criterion is given
searchUrl(query) == IF query THEN <<[page |-> 1]>> ELSE None

\* the page u of the catalog, and its "next" link
SearchData(cat, u) ==
    LET last == IF u.page * PageSize < Len(cat) THEN u.page * PageSize ELSE Len(cat)
    IN  SubSeq(cat, (u.page - 1) * PageSize + 1, last)
SearchNext(cat, u) ==
    IF u.page * PageSize < Len(cat) THEN <<[page |-> u.page + 1]>> ELSE None

\* the ways a request of the search can end: a good page, requests.get raising,
\* an HTTP status above 206, a content type without "json"
SearchOutcomes == {"ok", "transport", "http", "notjson"}

\* the loop "for data in datas", hubeau.py:1271-1286: a Station for every entry
\* in service, appended to result
RECURSIVE searchMerge(_, _, _, _, _)
searchMerge(objs, list, datas, i, utcnow) ==
    IF i > Len(datas) THEN [heap |-> objs, list |-> list]
    ELSE IF datas[i].en_service
    THEN LET objs1 == Append(objs, Station(datas[i].code, utcnow))
             a == append(objs1, list, Len(objs1))
         IN  searchMerge(a.heap, a.list, datas, i + 1, utcnow)
    ELSE searchMerge(objs, list, datas, i + 1, utcnow)

\* one turn of "while url", hubeau.py:1259-1294, on a response of outcome k
searchStep(objs, list, f, cat, k, utcnow) ==
    CASE k = "transport" ->
            [heap |-> objs, list |-> list, dl |-> f, raised |-> TRUE]
      [] k \in {"http", "notjson"} ->
            [heap |-> objs, list |-> list, dl |-> f, raised |-> FALSE]
      [] k = "ok" ->
            LET m == searchMerge(objs, list, SearchData(cat, f.url[1]), 1, utcnow)
                next == SearchNext(cat, f.url[1])
            IN  [heap |-> m.heap, list |-> m.list,
                 dl |-> [f EXCEPT !.next = <<next>>, !.page = @ + 1, !.url = next],
                 raised |-> FALSE]

InitSearch ==
    /\ now = 3
    /\ config = NoConfig
    /\ dbStation = {} /\ dbData = <<>>
    /\ remote = [s \in Ids |-> <<>>]
    /\ heap = <<>>
    /\ dbStationlist = <<>> /\ stationList = <<>>
    /\ pc = "search" /\ idx = 0 /\ dl = NoFrame /\ log = <<>>
    /\ \E q \in BOOLEAN : hist = [n |-> 0, query |-> q]
    /\ cand \in SeqsUpTo(CatalogEntries, MaxCatalog)
    /\ ret = None

\* request.do(...) up to its loop, hubeau.py:1225-1258
SearchBegin ==
    /\ pc = "search"
    /\ dl' = [obj |-> 0, url |-> searchUrl(hist.query), page |-> 1, next |-> <<>>]
    /\ pc' = "searching"
    /\ UNCHANGED <<now, config, dbStation, dbData, remote, heap, dbStationlist,
                   stationList, idx, log, hist, cand, ret>>

\* one turn of the loop of do: a request and the handling of its response
SearchPage ==
    /\ pc = "searching"
    /\ dl.url # None
    /\ Len(log) < MaxSearchReq
    /\ \E k \in SearchOutcomes :
          LET step == searchStep(heap, stationList, dl, cand, k, now)
          IN  /\ heap' = step.heap
              /\ stationList' = step.list
              /\ dl' = step.dl
              /\ pc' = IF step.raised THEN "crashed" ELSE "searching"
              /\ log' = Append(log, [url |-> dl.url[1], outcome |-> k])
    /\ UNCHANGED <<now, config, dbStation, dbData, remote, dbStationlist, idx, hist,
                   cand, ret>>

\* the loop has ended: do returns result, hubeau.py:1295-1297
SearchEnd ==
    /\ pc = "searching"
    /\ dl.url = None
    /\ ret' = <<stationList>>
    /\ pc' = "searched"
    /\ UNCHANGED <<now, config, dbStation, dbData, remote, heap, dbStationlist,
                   stationList, idx, dl, log, hist, cand>>

NextSearch == SearchBegin \/ SearchPage \/ SearchEnd

SpecSearch == InitSearch /\ [][NextSearch]_vars

\* C29: after a response with an HTTP status above 206 or a content type that is
\* not JSON the search issues no further request: such a request is the last of
\* the log, and the loop has ended so that do returns what it has collected.
C29_SearchStopsOnFailure ==
    \A i \in 1..Len(log) :
        log[i].outcome \in {"http", "notjson"} => (i = Len(log) /\ dl.url = None)

=============================================================================
